---- MODULE Spec2Model ----
(***************************************************************************)
(* Model of the PIR sensor broadcast protocol.                             *)
(*                                                                         *)
(*   src/pir-server.py   : the broadcast server (monitor_sensor thread,    *)
(*                         handle_client threads, accept loop, main's      *)
(*                         shutdown).  Specification Spec.                 *)
(*   src/video-client.py : PIRClient (receive thread, get_motion, close)   *)
(*                         and the consumer's uses of it in VidPlayer.     *)
(*                         Specification ClientSpec.                       *)
(*                                                                         *)
(* Python threads interleave between bytecodes, so every read or write of  *)
(* a shared object is a step of its own; steps that touch only a thread's  *)
(* locals are folded into the neighbouring shared access.                  *)
(***************************************************************************)
EXTENDS Integers, Sequences, FiniteSets, TLC

\* ------------------------------------------------------------------ bounds
MaxConns == 2
MaxTicks == 3
MaxFrames == 3
MaxWire == 4

\* ----------------------------------------------------------------- helpers
Range(s) == {s[i] : i \in 1..Len(s)}

Conns == 1..MaxConns

NoMsg == [kind |-> "none"]

\* list.remove(x): drops the first occurrence of x (pir-server.py:64)
RemoveAll(s, c) == <<>>
ListRemove(s, c) ==
    LET i == CHOOSE k \in 1..Len(s) : s[k] = c /\ \A j \in 1..(k-1) : s[j] # c
    IN  SubSeq(s, 1, i-1) \o SubSeq(s, i+1, Len(s))

VARIABLES
    \* ---- src/pir-server.py: module globals
    clients,            \* list of registered connections (line 26)
    pir_state,          \* line 27
    running,            \* line 28
    server_open,        \* the listening socket is open (server_socket, line 29)
    motion_count,       \* line 30
    \* ---- monitor_sensor thread
    mpc,                \* its position
    mon_previous_state, \* local previous_state (line 90)
    data,               \* the record built at lines 112-121
    message,            \* the serialized record handed to broadcast_to_clients
    idx,                \* position of the for loop's list iterator (line 54)
    disconnected,       \* local disconnected_clients (line 52)
    ridx,               \* position of the removal loop (line 62)
    ticks,              \* polls done so far (the timestamp of a record)
    \* ---- accept loop, handle_client threads, sockets
    nAccepted,          \* connections accepted so far
    hpc,                \* position of each connection's handle_client thread
    sock_open,          \* the server's handle of the connection is open
    broken,             \* the peer is gone: writes to the connection fail
    \* ---- main
    mainpc, midx,
    \* ---- history (not read by the program)
    lastReading,        \* <<the previous poll's reading>>, <<>> before the first poll
    fanoutStart,        \* the registry when the fan-out loop began
    sentTick,           \* per connection: bytes passed to send() in this fan-out
    fanoutSnap,         \* the registry when the fan-out loop ended
    welcomeFailed,      \* connections whose welcome send raised
    firstRec,           \* per connection: kind of the first record delivered
    atShutdown          \* the registry when shutdown began

srvVars == <<clients, pir_state, running, server_open, motion_count, mpc,
             mon_previous_state, data, message, idx, disconnected, ridx, ticks,
             nAccepted, hpc, sock_open, broken, mainpc, midx,
             lastReading, sentTick, fanoutSnap, fanoutStart, welcomeFailed,
             firstRec, atShutdown>>

VARIABLES
    \* ---- src/video-client.py: PIRClient's fields (lines 33-38)
    socket_open,        \* self.socket: "none", "open" or "closed"
    connected,          \* self.connected
    motion_detected,    \* self.motion_detected
    motion_age,         \* time.time() - self.last_motion_time, see AgeCap
    self_running,       \* self.running
    \* ---- the receive thread, _receive_data
    rpc,                \* its position
    buffer,             \* local buffer (line 102)
    previous_state,     \* local previous_state (line 103)
    current_state,      \* local current_state while an edge is being recorded
    \* ---- the consumer (run and VidPlayer)
    cpc,                \* its position
    \* ---- the environment
    wire,               \* bytes the server has written that recv has not returned yet
    nFrames,            \* lines written by the server so far
    \* ---- history (not read by the program)
    lastRec,            \* the last well-formed record the decoder was given: its
                        \* type and state, and whether the record before it was a
                        \* welcome carrying 1
    unreported,         \* 0->1 transitions in the records decoded so far, less
                        \* the get_motion calls that returned True
    lost,               \* edges overwritten while one was pending, or cleared unreported
    lastCalls           \* "T": the last get_motion call to return returned True;
                        \* "TF": the last two returned True, then False; each
                        \* with no 0->1 transition decoded since the True

cliVars == <<socket_open, connected, motion_detected, motion_age, self_running,
             rpc, buffer, previous_state, current_state, cpc, wire, nFrames, lastRec, unreported, lost, lastCalls>>

VARIABLES
    \* ---- src/video-client.py: find_raspberry_pi (lines 40-72)
    dpc,                \* position: "idle", "scan", "found", "notfound"
    host_i,             \* the loop variable i of line 56
    found,              \* last octet of the address returned; 0 for None
    \* ---- history
    probed,             \* the probes made, in order: [host, outcome]
    stream              \* every byte the server has put on the connection
                        \* (kept in the decoding specification only)

dscVars == <<dpc, host_i, found, probed>>

vars == <<srvVars, cliVars, dscVars, stream>>

\* --------------------------------------------------------- server: Init
ServerInit ==
    /\ clients = <<>>
    /\ pir_state = 0
    /\ running = TRUE
    /\ server_open = TRUE
    /\ motion_count = 0
    /\ mpc = "loop"
    /\ mon_previous_state = 0
    /\ data = NoMsg
    /\ message = NoMsg
    /\ idx = 1
    /\ disconnected = <<>>
    /\ ridx = 1
    /\ ticks = 0
    /\ nAccepted = 0
    /\ hpc = [c \in Conns |-> "none"]
    /\ sock_open = [c \in Conns |-> FALSE]
    /\ broken = [c \in Conns |-> FALSE]
    /\ mainpc = "serving"
    /\ midx = 1
    /\ lastReading = <<>>
    /\ fanoutStart = {}
    /\ sentTick = [c \in Conns |-> NoMsg]
    /\ fanoutSnap = {}
    /\ welcomeFailed = {}
    /\ firstRec = [c \in Conns |-> "none"]
    /\ atShutdown = {}


\* The process is alive until main returns; its daemon threads die with it.
Alive == mainpc # "done"

\* socket.send on connection c: it raises when the handle is closed or the peer
\* is known to be gone, and otherwise either succeeds or finds the peer gone
\* (and every later write then fails too).
SendOutcomes(c) == IF sock_open[c] /\ ~broken[c] THEN {TRUE, FALSE} ELSE {FALSE}

\* ----------------------------------------------- monitor_sensor (86-135)
\* lines 98-100: the new motion_count for a reading
DetectCountAnyChange(cur, prev, cnt) == IF cur # prev THEN cnt + 1 ELSE cnt
DetectCount(cur, prev, cnt) ==
    IF cur # prev THEN (IF cur = 1 THEN cnt + 1 ELSE cnt) ELSE cnt

\* lines 112-121: the record of a tick
BuildDataServedCount(cur, cnt, n, t) ==
    [kind |-> "pir_state", state |-> cur,
     motion_count |-> IF n = 0 THEN 0 ELSE cnt,
     clients_connected |-> n, seq |-> t]
BuildData(cur, cnt, n, t) ==
    [kind |-> "pir_state", state |-> cur, motion_count |-> cnt,
     clients_connected |-> n, seq |-> t]

\* lines 93-121: loop test, read the sensor, detect, publish, build the record
MonitorPoll ==
    /\ Alive /\ mpc = "loop"
    /\ IF ~running
       THEN /\ mpc' = "stopped"
            /\ UNCHANGED <<pir_state, motion_count, mon_previous_state, data,
                           ticks, lastReading>>
       ELSE /\ ticks < MaxTicks
            /\ \E reading \in {0, 1} :
                 LET cnt == DetectCount(reading, mon_previous_state, motion_count)
                 IN  /\ motion_count' = cnt
                     /\ mon_previous_state' = reading
                     /\ pir_state' = reading
                     /\ data' = BuildData(reading, cnt, Len(clients), ticks + 1)
                     /\ lastReading' = <<reading>>
            /\ ticks' = ticks + 1
            /\ mpc' = "check"
    /\ UNCHANGED <<cliVars, dscVars, stream>>
    /\ UNCHANGED <<clients, running, server_open, message, idx, disconnected, ridx,
                   nAccepted, hpc, sock_open, broken, mainpc, midx,
                   sentTick, fanoutSnap, fanoutStart, welcomeFailed, firstRec, atShutdown>>

\* lines 124-126 and 51-54: `if clients:`, serialize once, start the fan-out
MonitorCheck ==
    /\ Alive /\ mpc = "check"
    /\ IF clients # <<>>
       THEN /\ message' = data
            /\ idx' = 1
            /\ disconnected' = <<>>
            /\ sentTick' = [c \in Conns |-> NoMsg]
            /\ fanoutSnap' = {}
            /\ fanoutStart' = Range(clients)
            /\ mpc' = "send"
       ELSE /\ mpc' = "sleep"
            /\ UNCHANGED <<message, idx, disconnected, sentTick, fanoutSnap,
                           fanoutStart>>
    /\ UNCHANGED <<cliVars, dscVars, stream>>
    /\ UNCHANGED <<clients, pir_state, running, server_open, motion_count,
                   mon_previous_state, data, ridx, ticks, nAccepted, hpc, sock_open,
                   broken, mainpc, midx, lastReading, welcomeFailed,
                   firstRec, atShutdown>>

\* line 56: the bytes written to a connection
SendBytesPerClient == [message EXCEPT !.clients_connected = Len(clients)]
SendBytes == message

\* lines 54-59: one iteration of the fan-out loop over the live list
MonitorSend ==
    /\ Alive /\ mpc = "send"
    /\ idx <= Len(clients)
    /\ LET c == clients[idx] IN
         \E ok \in SendOutcomes(c) :
              IF ok
              THEN /\ sentTick' = [sentTick EXCEPT ![c] = SendBytes]
                   /\ firstRec' = [firstRec EXCEPT ![c] =
                                     IF @ = "none" THEN "pir_state" ELSE @]
                   /\ UNCHANGED <<disconnected, broken>>
              ELSE /\ disconnected' = Append(disconnected, c)
                   /\ broken' = [broken EXCEPT ![c] = @ \/ sock_open[c]]
                   /\ UNCHANGED <<firstRec, sentTick>>
    /\ idx' = idx + 1
    /\ UNCHANGED <<cliVars, dscVars, stream>>
    /\ UNCHANGED <<clients, pir_state, running, server_open, motion_count, mpc,
                   mon_previous_state, data, message, ridx, ticks, nAccepted, hpc,
                   sock_open, mainpc, midx, lastReading, fanoutSnap, fanoutStart, welcomeFailed, atShutdown>>

\* line 54: the iterator is exhausted
MonitorSendEnd ==
    /\ Alive /\ mpc = "send"
    /\ idx > Len(clients)
    /\ fanoutSnap' = Range(clients)
    /\ UNCHANGED fanoutStart
    /\ ridx' = 1
    /\ mpc' = "remove"
    /\ UNCHANGED <<cliVars, dscVars, stream>>
    /\ UNCHANGED <<clients, pir_state, running, server_open, motion_count,
                   mon_previous_state, data, message, idx, disconnected, ticks,
                   nAccepted, hpc, sock_open, broken, mainpc, midx, lastReading,
                   sentTick, welcomeFailed, firstRec, atShutdown>>

\* lines 62-65: one iteration of the removal loop
MonitorRemove ==
    /\ Alive /\ mpc = "remove"
    /\ ridx <= Len(disconnected)
    /\ LET c == disconnected[ridx] IN
         IF c \in Range(clients)
         THEN /\ clients' = ListRemove(clients, c)
              /\ sock_open' = [sock_open EXCEPT ![c] = FALSE]
         ELSE UNCHANGED <<clients, sock_open>>
    /\ ridx' = ridx + 1
    /\ UNCHANGED <<cliVars, dscVars, stream>>
    /\ UNCHANGED <<pir_state, running, server_open, motion_count, mpc,
                   mon_previous_state, data, message, idx, disconnected, ticks,
                   nAccepted, hpc, broken, mainpc, midx, lastReading, sentTick, fanoutSnap, fanoutStart, welcomeFailed, firstRec, atShutdown>>

\* broadcast_to_clients returns; lines 129-135: log, sleep
MonitorSleep ==
    /\ Alive /\ mpc = "remove"
    /\ ridx > Len(disconnected)
    /\ mpc' = "sleep"
    /\ UNCHANGED <<cliVars, dscVars, stream>>
    /\ UNCHANGED <<clients, pir_state, running, server_open, motion_count,
                   mon_previous_state, data, message, idx, disconnected, ridx, ticks,
                   nAccepted, hpc, sock_open, broken, mainpc, midx, lastReading,
                   sentTick, fanoutSnap, fanoutStart, welcomeFailed, firstRec,
                   atShutdown>>

\* line 135: the sleep ends; the locals of the finished broadcast_to_clients
\* call are dead
MonitorWake ==
    /\ Alive /\ mpc = "sleep"
    /\ mpc' = "loop"
    /\ idx' = 1 /\ ridx' = 1 /\ disconnected' = <<>>
    /\ message' = NoMsg /\ data' = NoMsg
    /\ sentTick' = [c \in Conns |-> NoMsg]
    /\ fanoutSnap' = {} /\ fanoutStart' = {}
    /\ UNCHANGED <<cliVars, dscVars, stream>>
    /\ UNCHANGED <<clients, pir_state, running, server_open, motion_count,
                   mon_previous_state, ticks,
                   nAccepted, hpc, sock_open, broken, mainpc, midx, lastReading,
                   welcomeFailed, firstRec, atShutdown>>

\* ------------------------------------------------ accept loop (165-183)
\* lines 170-177: accept a connection and start its handle_client thread
Accept ==
    /\ mainpc = "serving"
    /\ nAccepted < MaxConns
    /\ nAccepted' = nAccepted + 1
    /\ hpc' = [hpc EXCEPT ![nAccepted + 1] = "start"]
    /\ sock_open' = [sock_open EXCEPT ![nAccepted + 1] = TRUE]
    /\ UNCHANGED <<cliVars, dscVars, stream>>
    /\ UNCHANGED <<clients, pir_state, running, server_open, motion_count, mpc,
                   mon_previous_state, data, message, idx, disconnected, ridx, ticks,
                   broken, mainpc, midx, lastReading, sentTick,
                   fanoutSnap, fanoutStart, welcomeFailed, firstRec, atShutdown>>

\* ------------------------------------------------- handle_client (67-84)
\* line 72: register the connection
HandleAppend(c) ==
    /\ Alive /\ hpc[c] = "start"
    /\ clients' = Append(clients, c)
    /\ hpc' = [hpc EXCEPT ![c] = "welcome"]
    /\ UNCHANGED <<cliVars, dscVars, stream>>
    /\ UNCHANGED <<pir_state, running, server_open, motion_count, mpc,
                   mon_previous_state, data, message, idx, disconnected, ridx, ticks,
                   nAccepted, sock_open, broken, mainpc, midx, lastReading,
                   sentTick, fanoutSnap, fanoutStart, welcomeFailed, firstRec,
                   atShutdown>>

\* lines 75-84: build the welcome record from pir_state and send it; a failed
\* send is swallowed
HandleWelcome(c) ==
    /\ Alive /\ hpc[c] = "welcome"
    /\ \E ok \in SendOutcomes(c) :
         IF ok
         THEN /\ firstRec' = [firstRec EXCEPT ![c] = IF @ = "none" THEN "welcome" ELSE @]
              /\ UNCHANGED <<welcomeFailed, broken>>
         ELSE /\ welcomeFailed' = welcomeFailed \cup {c}
              /\ broken' = [broken EXCEPT ![c] = @ \/ sock_open[c]]
              /\ UNCHANGED firstRec
    /\ hpc' = [hpc EXCEPT ![c] = "done"]
    /\ UNCHANGED <<cliVars, dscVars, stream>>
    /\ UNCHANGED <<clients, pir_state, running, server_open, motion_count, mpc,
                   mon_previous_state, data, message, idx, disconnected, ridx, ticks,
                   nAccepted, sock_open, mainpc, midx, lastReading,
                   sentTick, fanoutSnap, fanoutStart, atShutdown>>

\* ------------------------------------------------------- main (191-218)
\* KeyboardInterrupt in the accept loop; start_server's finally (187-189)
\* closes the listening socket
Interrupt ==
    /\ mainpc = "serving"
    /\ server_open' = FALSE
    /\ mainpc' = "finally"
    /\ UNCHANGED <<cliVars, dscVars, stream>>
    /\ UNCHANGED <<clients, pir_state, running, motion_count, mpc,
                   mon_previous_state, data, message, idx, disconnected, ridx, ticks,
                   nAccepted, hpc, sock_open, broken, midx, lastReading,
                   sentTick, fanoutSnap, fanoutStart, welcomeFailed, firstRec,
                   atShutdown>>

\* line 208: running = False; line 211: the loop's iterator is created
MainStop ==
    /\ mainpc = "finally"
    /\ running' = FALSE
    /\ midx' = 1
    /\ atShutdown' = Range(clients)
    /\ mainpc' = "closing"
    /\ UNCHANGED <<cliVars, dscVars, stream>>
    /\ UNCHANGED <<clients, pir_state, server_open, motion_count, mpc,
                   mon_previous_state, data, message, idx, disconnected, ridx, ticks,
                   nAccepted, hpc, sock_open, broken, lastReading,
                   sentTick, fanoutSnap, fanoutStart, welcomeFailed, firstRec>>

\* lines 211-212: one iteration of the closing loop over the live list
MainClose ==
    /\ mainpc = "closing"
    /\ midx <= Len(clients)
    /\ sock_open' = [sock_open EXCEPT ![clients[midx]] = FALSE]
    /\ midx' = midx + 1
    /\ UNCHANGED <<cliVars, dscVars, stream>>
    /\ UNCHANGED <<clients, pir_state, running, server_open, motion_count, mpc,
                   mon_previous_state, data, message, idx, disconnected, ridx, ticks,
                   nAccepted, hpc, broken, mainpc, lastReading,
                   sentTick, fanoutSnap, fanoutStart, welcomeFailed, firstRec,
                   atShutdown>>

\* lines 214-218: the iterator is exhausted; close the listening socket; return
MainDone ==
    /\ mainpc = "closing"
    /\ midx > Len(clients)
    /\ server_open' = FALSE
    /\ mainpc' = "done"
    /\ UNCHANGED <<cliVars, dscVars, stream>>
    /\ UNCHANGED <<clients, pir_state, running, motion_count, mpc,
                   mon_previous_state, data, message, idx, disconnected, ridx, ticks,
                   nAccepted, hpc, sock_open, broken, midx, lastReading,
                   sentTick, fanoutSnap, fanoutStart, welcomeFailed, firstRec,
                   atShutdown>>

\* ======================================================================
\* src/video-client.py
\* ======================================================================

\* ---------------------------------------------------------------- the wire
\* A line of the stream is a short sequence of characters that stands for a
\* JSON text:  S d  {"type":"pir_state","state":d,...}     S  the same, no "state"
\*             W d  {"type":"welcome","pir_state":d,...}   W  the same, no "pir_state"
\*             d    the JSON number d (valid JSON, not an object)
\*             x    text that is not JSON                  (empty)  a blank line
\* A record may carry text outside ASCII in a field the decoder does not read
\* (S d e, W d e: the record S d, W d with one such character e in a string).
\* On the wire e is the two bytes Lead Cont of its UTF-8 encoding; decoded, it
\* is the one character Wide.
NL == "\n"
Lead == "C3"
Cont == "A9"
Wide == "U+00E9"

\* line 108: .decode('utf-8') of the bytes one read returned.  ok is FALSE where
\* decode raises UnicodeDecodeError: a continuation byte with no lead byte
\* before it, or a lead byte with no continuation byte after it.
RECURSIVE Utf8Decode(_)
Utf8Decode(bytes) ==
    IF bytes = <<>>
    THEN [ok |-> TRUE, text |-> <<>>]
    ELSE IF Head(bytes) = Lead
    THEN IF Len(bytes) >= 2 /\ bytes[2] = Cont
         THEN LET r == Utf8Decode(SubSeq(bytes, 3, Len(bytes)))
              IN  [ok |-> r.ok, text |-> IF r.ok THEN <<Wide>> \o r.text ELSE <<>>]
         ELSE [ok |-> FALSE, text |-> <<>>]
    ELSE IF Head(bytes) = Cont
    THEN [ok |-> FALSE, text |-> <<>>]
    ELSE LET r == Utf8Decode(Tail(bytes))
         IN  [ok |-> r.ok, text |-> IF r.ok THEN <<Head(bytes)>> \o r.text ELSE <<>>]
WireLines == { <<"S", "0">>, <<"S", "1">>, <<"S">>, <<"W", "0">>, <<"W", "1">>,
               <<"W">>, <<"1">>, <<"x">>, <<>> }

IsDigit(ch) == ch \in {"0", "1"}
DigitVal(ch) == IF ch = "1" THEN 1 ELSE 0
TypeOf(ch) == IF ch = "S" THEN "pir_state" ELSE "welcome"

\* line 122: json.loads(line)
JsonLoads(line) ==
    IF Len(line) = 1 /\ IsDigit(line[1])
    THEN [json |-> "number", type |-> "", has |-> FALSE, value |-> DigitVal(line[1])]
    ELSE IF Len(line) = 1 /\ line[1] \in {"S", "W"}
    THEN [json |-> "object", type |-> TypeOf(line[1]), has |-> FALSE, value |-> 0]
    ELSE IF /\ Len(line) \in {2, 3} /\ line[1] \in {"S", "W"} /\ IsDigit(line[2])
            /\ Len(line) = 3 => line[3] = Wide
    THEN [json |-> "object", type |-> TypeOf(line[1]), has |-> TRUE,
          value |-> DigitVal(line[2])]
    ELSE [json |-> "error", type |-> "", has |-> FALSE, value |-> 0]

\* lines 126 and 139: message.get(key, 0) of the record's state field
GetState(msg) == IF msg.has THEN msg.value ELSE 0

\* lines 118-119: '\n' in buffer; buffer.split('\n', 1)
HasNewline(buf) == \E i \in 1..Len(buf) : buf[i] = NL
NLPos(buf) == CHOOSE i \in 1..Len(buf) : buf[i] = NL /\ \A j \in 1..(i-1) : buf[j] # NL
FirstLine(buf) == SubSeq(buf, 1, NLPos(buf) - 1)
RestOf(buf) == SubSeq(buf, NLPos(buf) + 1, Len(buf))

\* SETTINGS['motion_debounce_ms'] / 1000 (line 155) and the 0.5 s of line 306,
\* in units of 100 ms
motion_debounce == 2
recent_window == 5

\* The program reads the clock and last_motion_time only in the differences of
\* lines 155 and 306, so the model keeps the difference, motion_age, in units
\* of 100 ms.  The tests compare it with motion_debounce and recent_window
\* only: every age from AgeCap on behaves alike and is kept as AgeCap.
AgeCap == recent_window

ClientInit ==
    /\ socket_open = "none"
    /\ connected = FALSE
    /\ motion_detected = FALSE
    /\ motion_age = AgeCap      \* last_motion_time = 0 (line 36): long ago
    /\ self_running = TRUE
    /\ rpc = "idle"
    /\ buffer = <<>>
    /\ previous_state = 0
    /\ current_state = 0
    /\ cpc = "init"
    /\ wire = <<>>
    /\ nFrames = 0
    /\ lastRec = [type |-> "none", state |-> 0, seeded |-> FALSE]
    /\ unreported = 0
    /\ lost = 0
    /\ lastCalls = "other"
    /\ stream = <<>>

\* ------------------------------------------------------- connect (74-98)
Connect ==
    /\ cpc = "init"
    /\ socket_open' = "open"
    /\ \E ok \in BOOLEAN :
         IF ok
         THEN /\ connected' = TRUE
              /\ rpc' = "loop"
              /\ cpc' = "idle"
         ELSE /\ cpc' = "exit"
              /\ UNCHANGED <<connected, rpc>>
    /\ UNCHANGED <<motion_detected, motion_age, self_running, buffer,
                   previous_state, current_state, wire,
                   nFrames, lastRec, unreported, lost, lastCalls>>
    /\ UNCHANGED <<srvVars, dscVars, stream>>

\* ------------------------------------------------- _receive_data (100-149)
\* line 105: while self.running and self.connected
RecvLoop ==
    /\ rpc = "loop"
    /\ rpc' = IF self_running /\ connected THEN "recv" ELSE "stopped"
    /\ UNCHANGED <<socket_open, connected, motion_detected, motion_age,
                   self_running, buffer, previous_state, current_state, cpc,
                   wire, nFrames, lastRec, unreported, lost, lastCalls>>
    /\ UNCHANGED <<srvVars, dscVars, stream>>

\* lines 110-113 and 146-149: what the loop does when the read returns no bytes
\* or raises anything but a timeout
OnSocketFailureKeep == connected
OnSocketFailure == FALSE

\* lines 107-115: a read returns some of the bytes in flight; they are decoded
\* on their own (108) and the text is appended to the buffer (115).  Where
\* decode raises, the bytes are gone and lines 146-149 end the loop.
RecvData ==
    /\ rpc = "recv" /\ socket_open = "open"
    /\ \E k \in 1..Len(wire) :
         LET decoded == Utf8Decode(SubSeq(wire, 1, k))
         IN  /\ wire' = SubSeq(wire, k + 1, Len(wire))
             /\ IF decoded.ok
                THEN /\ buffer' = buffer \o decoded.text
                     /\ rpc' = "lines"
                     /\ UNCHANGED connected
                ELSE /\ connected' = OnSocketFailure
                     /\ rpc' = "failed"
                     /\ UNCHANGED buffer
    /\ UNCHANGED <<socket_open, motion_detected, motion_age,
                   self_running, previous_state, current_state, cpc, nFrames, lastRec, unreported, lost, lastCalls>>
    /\ UNCHANGED <<srvVars, dscVars, stream>>

\* lines 144-145: the read times out
RecvTimeout ==
    /\ rpc = "recv" /\ socket_open = "open"
    /\ wire = <<>>
    /\ rpc' = "loop"
    /\ UNCHANGED <<socket_open, connected, motion_detected, motion_age,
                   self_running, buffer, previous_state, current_state, cpc,
                   wire, nFrames, lastRec, unreported, lost, lastCalls>>
    /\ UNCHANGED <<srvVars, dscVars, stream>>

\* lines 110-113: the peer has closed and every byte was read (zero-length read);
\* lines 146-149: the read raises (connection reset, or the socket was closed
\* by close())
RecvFail ==
    /\ rpc = "recv"
    /\ connected' = OnSocketFailure
    /\ rpc' = "failed"
    /\ UNCHANGED <<socket_open, motion_detected, motion_age,
                   self_running, buffer, previous_state, current_state, cpc,
                   wire, nFrames, lastRec, unreported, lost, lastCalls>>
    /\ UNCHANGED <<srvVars, dscVars, stream>>

\* line 139: the welcome record seeds previous_state
WelcomeSeedNone(prev, msg) == prev
WelcomeSeed(prev, msg) == GetState(msg)

\* line 129: rising edge
IsRisingAnyOne(cur, prev) == cur = 1
IsRising(cur, prev) == cur = 1 /\ prev = 0

\* line 134: previous_state after a record that is not a rising edge
PreviousAfterRecordKept(cur, prev) == prev
PreviousAfterRecord(cur, prev) == cur

\* The state embedded in the last record given to the decoder (0 before any).
LastState == lastRec.state

\* lines 118-142: take one line off the buffer and handle it
RecvLines ==
    /\ rpc = "lines"
    /\ IF ~HasNewline(buffer)
       THEN /\ rpc' = "loop"
            /\ UNCHANGED <<buffer, previous_state, current_state, connected,
                           lastRec, unreported, lastCalls>>
       ELSE LET line == FirstLine(buffer)
                msg  == JsonLoads(line)
            IN  /\ buffer' = RestOf(buffer)
                /\ IF line = <<>> \/ msg.json = "error"
                   THEN \* line 120: blank; lines 141-142: JSONDecodeError
                        /\ rpc' = "lines"
                        /\ UNCHANGED <<previous_state, current_state, connected,
                                       lastRec, unreported, lastCalls>>
                   ELSE IF msg.json # "object"
                   THEN \* message.get raises AttributeError: lines 146-149
                        /\ connected' = OnSocketFailure
                        /\ rpc' = "failed"
                        /\ UNCHANGED <<previous_state, current_state, lastRec,
                                       unreported, lastCalls>>
                   ELSE IF msg.type = "pir_state"
                   THEN LET cur == GetState(msg) IN
                        /\ lastRec' = [type |-> "pir_state", state |-> cur,
                                        seeded |-> lastRec.type = "welcome"
                                                   /\ lastRec.state = 1]
                        /\ unreported' = IF cur = 1 /\ LastState = 0
                                         THEN unreported + 1 ELSE unreported
                        /\ lastCalls' = IF cur = 1 /\ LastState = 0
                                        THEN "other" ELSE lastCalls
                        /\ IF IsRising(cur, previous_state)
                           THEN /\ current_state' = cur
                                /\ rpc' = "setflag"
                                /\ UNCHANGED previous_state
                           ELSE /\ previous_state' = PreviousAfterRecord(cur, previous_state)
                                /\ rpc' = "lines"
                                /\ UNCHANGED current_state
                        /\ UNCHANGED connected
                   ELSE \* welcome
                        /\ lastRec' = [type |-> "welcome", state |-> GetState(msg),
                                        seeded |-> lastRec.type = "welcome"
                                                   /\ lastRec.state = 1]
                        /\ previous_state' = WelcomeSeed(previous_state, msg)
                        /\ rpc' = "lines"
                        /\ UNCHANGED <<current_state, connected, unreported, lastCalls>>
    /\ UNCHANGED <<socket_open, motion_detected, motion_age, self_running,
                   cpc, wire, nFrames, lost>>
    /\ UNCHANGED <<srvVars, dscVars, stream>>

\* line 130: self.motion_detected = True
RecvSetFlag ==
    /\ rpc = "setflag"
    /\ motion_detected' = TRUE
    /\ lost' = IF motion_detected THEN lost + 1 ELSE lost
    /\ rpc' = "settime"
    /\ UNCHANGED <<socket_open, connected, motion_age, self_running, buffer,
                   previous_state, current_state, cpc,
                   wire, nFrames, lastRec, unreported, lastCalls>>
    /\ UNCHANGED <<srvVars, dscVars, stream>>

\* lines 131-134: self.last_motion_time = time.time(); previous_state = current_state
RecvSetTime ==
    /\ rpc = "settime"
    /\ motion_age' = 0
    /\ previous_state' = current_state
    /\ current_state' = 0
    /\ rpc' = "lines"
    /\ UNCHANGED <<socket_open, connected, motion_detected, self_running, buffer,
                   cpc, wire, nFrames, lastRec, unreported, lost, lastCalls>>
    /\ UNCHANGED <<srvVars, dscVars, stream>>

\* ---------------------------------------------------- get_motion (151-158)
\* line 153: if self.motion_detected
GetMotionFlag ==
    /\ cpc = "idle"
    /\ IF motion_detected
       THEN /\ cpc' = "gm_debounce"
            /\ UNCHANGED lastCalls
       ELSE /\ lastCalls' = IF lastCalls = "T" THEN "TF" ELSE "other"
            /\ UNCHANGED cpc
    /\ UNCHANGED <<socket_open, connected, motion_detected, motion_age,
                   self_running, rpc, buffer, previous_state, current_state,
                   wire, nFrames, lastRec,
                   unreported, lost>>
    /\ UNCHANGED <<srvVars, dscVars, stream>>

\* line 155: the debounce test
DebounceOverNonStrict(age) == age >= motion_debounce
DebounceOver(age) == age > motion_debounce

\* line 158: what get_motion leaves in the flag when it returns False
FlagAfterFalseCleared == FALSE
FlagAfterFalse == motion_detected

GetMotionDebounce ==
    /\ cpc = "gm_debounce"
    /\ IF DebounceOver(motion_age)
       THEN /\ cpc' = "gm_clear"
            /\ UNCHANGED <<lastCalls, motion_detected>>
       ELSE /\ lastCalls' = IF lastCalls = "T" THEN "TF" ELSE "other"
            /\ motion_detected' = FlagAfterFalse
            /\ cpc' = "idle"
    /\ UNCHANGED <<socket_open, connected, motion_age,
                   self_running, rpc, buffer, previous_state, current_state,
                   wire, nFrames, lastRec,
                   unreported, lost>>
    /\ UNCHANGED <<srvVars, dscVars, stream>>

\* line 156: what get_motion leaves in the flag before it returns True
FlagAfterReportKept == motion_detected
FlagAfterReport == FALSE

\* lines 156-157: clear the flag, return True
GetMotionClear ==
    /\ cpc = "gm_clear"
    /\ motion_detected' = FlagAfterReport
    /\ unreported' = unreported - 1
    /\ lastCalls' = "T"
    /\ cpc' = "idle"
    /\ UNCHANGED <<socket_open, connected, motion_age, self_running, rpc,
                   buffer, previous_state, current_state, wire, nFrames, lastRec, lost>>
    /\ UNCHANGED <<srvVars, dscVars, stream>>

\* ------------------------------------- VidPlayer.wait_no_motion (302-309)
\* lines 303-306: take the time, test the flag
WaitNoMotionFlag ==
    /\ cpc = "idle"
    /\ IF motion_detected
       THEN /\ cpc' = "w_clear"
       ELSE /\ cpc' = "w_recent"
    /\ UNCHANGED <<socket_open, connected, motion_detected, motion_age,
                   self_running, rpc, buffer, previous_state, current_state,
                   wire, nFrames, lastRec, unreported, lost, lastCalls>>
    /\ UNCHANGED <<srvVars, dscVars, stream>>

\* line 306: or (current_time - last_motion_time < 0.5)
WaitNoMotionRecent ==
    /\ cpc = "w_recent"
    /\ cpc' = IF motion_age < recent_window THEN "w_clear" ELSE "idle"
    /\ UNCHANGED <<socket_open, connected, motion_detected, motion_age,
                   self_running, rpc, buffer, previous_state, current_state,
                   wire, nFrames, lastRec, unreported, lost, lastCalls>>
    /\ UNCHANGED <<srvVars, dscVars, stream>>

\* line 309: self.pir_client.motion_detected = False
WaitNoMotionClear ==
    /\ cpc = "w_clear"
    /\ motion_detected' = FALSE
    /\ lost' = IF motion_detected THEN lost + 1 ELSE lost
    /\ cpc' = "idle"
    /\ UNCHANGED <<socket_open, connected, motion_age, self_running, rpc,
                   buffer, previous_state, current_state, wire, nFrames, lastRec, unreported,
                   lastCalls>>
    /\ UNCHANGED <<srvVars, dscVars, stream>>

\* --------------------------------------------------------- close (160-165)
\* line 162: self.running = False
CloseStop ==
    /\ cpc = "idle"
    /\ self_running' = FALSE
    /\ cpc' = "close_socket"
    /\ UNCHANGED <<socket_open, connected, motion_detected, motion_age, rpc,
                   buffer, previous_state, current_state, wire,
                   nFrames, lastRec, unreported, lost, lastCalls>>
    /\ UNCHANGED <<srvVars, dscVars, stream>>

\* lines 163-164: self.socket.close()
SocketAfterCloseLeftOpen == socket_open
SocketAfterClose == "closed"

CloseSocket ==
    /\ cpc = "close_socket"
    /\ socket_open' = SocketAfterClose
    /\ cpc' = "close_flag"
    /\ UNCHANGED <<connected, motion_detected, motion_age, self_running, rpc,
                   buffer, previous_state, current_state, wire, nFrames, lastRec, unreported, lost, lastCalls>>
    /\ UNCHANGED <<srvVars, dscVars, stream>>

\* line 165: what close leaves in self.connected
ConnectedAfterCloseToggled == ~connected
ConnectedAfterClose == FALSE

\* line 165: self.connected = False
CloseFlag ==
    /\ cpc = "close_flag"
    /\ connected' = ConnectedAfterClose
    /\ cpc' = "idle"
    /\ UNCHANGED <<socket_open, motion_detected, motion_age, self_running,
                   rpc, buffer, previous_state, current_state, wire, nFrames, lastRec, unreported, lost, lastCalls>>
    /\ UNCHANGED <<srvVars, dscVars, stream>>

\* ------------------------------------------------------- the environment
\* The server writes one line to the connection.
ServerWrites ==
    /\ socket_open = "open" /\ rpc \notin {"idle", "stopped", "failed"}
    /\ nFrames < MaxFrames
    /\ \E line \in WireLines :
         /\ Len(wire) + Len(line) + 1 <= MaxWire
         /\ wire' = wire \o line \o <<NL>>
    /\ nFrames' = nFrames + 1
    /\ UNCHANGED <<socket_open, connected, motion_detected, motion_age,
                   self_running, rpc, buffer, previous_state, current_state, cpc,
                   lastRec, unreported, lost, lastCalls>>
    /\ UNCHANGED <<srvVars, dscVars, stream>>

\* 100 ms pass.
TimePasses ==
    /\ cpc \notin {"init", "exit"}
    /\ motion_age < AgeCap
    /\ motion_age' = motion_age + 1
    /\ UNCHANGED <<socket_open, connected, motion_detected,
                   self_running, rpc, buffer, previous_state, current_state, cpc,
                   wire, nFrames, lastRec, unreported, lost, lastCalls>>
    /\ UNCHANGED <<srvVars, dscVars, stream>>

ClientNext ==
    \/ Connect
    \/ RecvLoop
    \/ RecvData
    \/ RecvTimeout
    \/ RecvFail
    \/ RecvLines
    \/ RecvSetFlag
    \/ RecvSetTime
    \/ GetMotionFlag
    \/ GetMotionDebounce
    \/ GetMotionClear
    \/ WaitNoMotionFlag
    \/ WaitNoMotionRecent
    \/ WaitNoMotionClear
    \/ CloseStop
    \/ CloseSocket
    \/ CloseFlag
    \/ ServerWrites
    \/ TimePasses

\* ------------------------------------------------------ specifications
\* ----------------------------------------- find_raspberry_pi (40-72)
\* line 56: for i in range(1, 255)
FirstHost == 1
LastHost == 254

\* line 62: connect_ex returns 0, returns an error number, or raises
ProbeOutcomes == {"connected", "refused", "raised"}

\* line 63: if result == 0
IsConnectedAlways(o) == TRUE
IsConnected(o) == o = "connected"

\* lines 43-54: find the local address and its /24 prefix; None when that fails
DiscoverStart ==
    /\ dpc = "idle" /\ cpc = "init"
    /\ \E ok \in BOOLEAN :
         IF ok
         THEN /\ dpc' = "scan"
              /\ host_i' = FirstHost
         ELSE /\ dpc' = "notfound"
              /\ UNCHANGED host_i
    /\ UNCHANGED <<found, probed>>
    /\ UNCHANGED <<srvVars, cliVars, stream>>

\* lines 56-69: one iteration of the scan: probe network_prefix + str(i)
DiscoverProbe ==
    /\ dpc = "scan"
    /\ host_i <= LastHost
    /\ \E o \in ProbeOutcomes :
         /\ probed' = Append(probed, [host |-> host_i, ok |-> o = "connected"])
         /\ IF IsConnected(o)
            THEN /\ found' = host_i
                 /\ dpc' = "found"
                 /\ UNCHANGED host_i
            ELSE /\ host_i' = host_i + 1
                 /\ UNCHANGED <<found, dpc>>
    /\ UNCHANGED <<srvVars, cliVars, stream>>

\* lines 71-72: the range is exhausted
DiscoverEnd ==
    /\ dpc = "scan"
    /\ host_i > LastHost
    /\ dpc' = "notfound"
    /\ UNCHANGED <<host_i, found, probed>>
    /\ UNCHANGED <<srvVars, cliVars, stream>>

\* find_raspberry_pi has not been called.
DiscoverIdle ==
    /\ dpc = "idle"
    /\ host_i = 0
    /\ found = 0
    /\ probed = <<>>

Init == ServerInit /\ ClientInit /\ DiscoverIdle

\* The server in service: the monitor thread, the accept loop and the
\* handle_client threads.
ServeNext ==
    \/ MonitorPoll
    \/ MonitorCheck
    \/ MonitorSend
    \/ MonitorSendEnd
    \/ MonitorRemove
    \/ MonitorSleep
    \/ MonitorWake
    \/ Accept
    \/ \E c \in Conns : HandleAppend(c)
    \/ \E c \in Conns : HandleWelcome(c)

ServeSpec == Init /\ [][ServeNext]_vars

\* The server with main's shutdown.
Next ==
    \/ ServeNext
    \/ Interrupt
    \/ MainStop
    \/ MainClose
    \/ MainDone

Spec == Init /\ [][Next]_vars

\* The client.
ClientSpec == Init /\ [][ClientNext]_vars

\* The client with a consumer that only polls get_motion (check_motion_or_input,
\* lines 274-277) and closes the link.
PollNext ==
    \/ Connect
    \/ RecvLoop
    \/ RecvData
    \/ RecvTimeout
    \/ RecvFail
    \/ RecvLines
    \/ RecvSetFlag
    \/ RecvSetTime
    \/ GetMotionFlag
    \/ GetMotionDebounce
    \/ GetMotionClear
    \/ CloseStop
    \/ CloseSocket
    \/ CloseFlag
    \/ ServerWrites
    \/ TimePasses

PollSpec == Init /\ [][PollNext]_vars

\* Stopping.  The server and the client are two programs on two machines and
\* share no variable, so each is run alone: the server moves while the client
\* has not started and the client moves while the server has not started.
\* The threads are scheduled fairly: main's shutdown, the monitor thread, the
\* receive thread and a close() call in progress each take their next step.
\* No fairness is put on the network (Accept, ServerWrites, a failing read of
\* an open socket), on KeyboardInterrupt or on the consumer calling close().
MainShutdown == MainStop \/ MainClose \/ MainDone

RecvThread ==
    \/ RecvLoop
    \/ RecvData
    \/ RecvTimeout
    \/ RecvLines
    \/ RecvSetFlag
    \/ RecvSetTime

\* A read of a socket that close() has closed raises (lines 146-149).
RecvRaisesClosed == socket_open = "closed" /\ RecvFail

CloseRuns == CloseSocket \/ CloseFlag

LinkNext ==
    \/ Connect
    \/ RecvThread
    \/ RecvFail
    \/ CloseStop
    \/ CloseRuns
    \/ ServerWrites

StopNext ==
    \/ ClientInit /\ ServeNext
    \/ ClientInit /\ Interrupt
    \/ ClientInit /\ MainShutdown
    \/ ServerInit /\ LinkNext

StopSpec ==
    /\ Init
    /\ [][StopNext]_vars
    /\ WF_vars(ClientInit /\ MainShutdown)
    /\ WF_vars(ServerInit /\ RecvThread)
    /\ WF_vars(ServerInit /\ RecvRaisesClosed)
    /\ WF_vars(ServerInit /\ CloseRuns)

\* Discovery alone.
DiscoverNext ==
    \/ DiscoverStart
    \/ DiscoverProbe
    \/ DiscoverEnd

DiscoverSpec == Init /\ [][DiscoverNext]_vars

\* ------------------------------------------------ the decoder on its own
\* The decode loop of _receive_data on a connection that is already up (the
\* state connect() leaves, lines 85-90), with a whole byte stream in flight;
\* RecvData hands it over in every possible division into reads.
MaxStreamLines == 3

DecodeLines == { <<"S", "0">>, <<"S", "1">>, <<"W", "1">>, <<"1">>, <<"x">>, <<>>,
                 <<"S", "1", Lead, Cont>>, <<Lead, Cont>> }
DecodeTails == { <<>>, <<"S">>, <<"S", "1">> }

RECURSIVE JoinLines(_)
JoinLines(ls) ==
    IF ls = <<>> THEN <<>> ELSE Head(ls) \o <<NL>> \o JoinLines(Tail(ls))

DecodeStreams ==
    { JoinLines(ls) \o t :
        ls \in UNION { [1..n -> DecodeLines] : n \in 0..MaxStreamLines },
        t \in DecodeTails }

DecodeInit ==
    /\ ServerInit
    /\ DiscoverIdle
    /\ socket_open = "open"
    /\ connected = TRUE
    /\ motion_detected = FALSE
    /\ motion_age = AgeCap
    /\ self_running = TRUE
    /\ rpc = "loop"
    /\ buffer = <<>>
    /\ previous_state = 0
    /\ current_state = 0
    /\ cpc = "idle"
    /\ nFrames = 0
    /\ lastRec = [type |-> "none", state |-> 0, seeded |-> FALSE]
    /\ unreported = 0
    /\ lost = 0
    /\ lastCalls = "other"
    /\ stream \in DecodeStreams
    /\ wire = stream

DecodeNext ==
    \/ RecvLoop
    \/ RecvData
    \/ RecvTimeout
    \/ RecvLines
    \/ RecvSetFlag
    \/ RecvSetTime

DecodeSpec == DecodeInit /\ [][DecodeNext]_vars

\* ======================================================================
\* Properties
\* ======================================================================

\* ------------------------------------------------------------------ C1
\* C1: on a poll whose reading is 1 when the previous poll's reading was 0,
\* motion_count grows by exactly 1; on a 1->1, 0->0 or 1->0 poll, and in every
\* step that is not a poll, it is unchanged; it never decreases.  (The first
\* poll has no previous reading: the code counts it when it reads 1.)
C1_EdgeCountExact ==
    [][ /\ motion_count' >= motion_count
        /\ (ticks' = ticks) => (motion_count' = motion_count)
        /\ (ticks' # ticks /\ lastReading # <<>>) =>
              motion_count' - motion_count =
                 (IF lastReading[1] = 0 /\ lastReading'[1] = 1 THEN 1 ELSE 0)
        /\ (ticks' # ticks /\ lastReading = <<>>) =>
              motion_count' - motion_count =
                 (IF lastReading'[1] = 1 THEN 1 ELSE 0)
      ]_vars

\* Two 0->1 transitions were counted: the second one followed a poll that read 0.
C1_Witness == motion_count = 2 /\ lastReading = <<1>>

\* ------------------------------------------------------------------ C2
\* C2: when a fan-out ends, every connection registered at that moment,
\* including one the accept path appended while the loop ran, has either
\* failed its write or been written this tick's record, and all of those
\* written got the same bytes, those of the record serialized for the tick.
C2_FanOutEquality ==
    \A c \in fanoutSnap :
       \/ c \in Range(disconnected)          \* the write raised (see C7)
       \/ /\ sentTick[c] # NoMsg
          /\ sentTick[c] = data
          /\ \A d \in fanoutSnap \ Range(disconnected) : sentTick[d] = sentTick[c]

\* A fan-out that began with one connection ended with two: the second was
\* appended while the loop ran.
C2_Witness ==
    /\ mpc = "remove"
    /\ fanoutStart = {1}
    /\ fanoutSnap = {1, 2}
    /\ disconnected = <<>>
    /\ sentTick[1] = message /\ sentTick[2] = message

\* ------------------------------------------------------------------ C7
\* C7: when broadcast_to_clients has returned, each connection that was
\* registered when the fan-out ended and whose write failed is out of the
\* registry and closed, and each one whose write did not fail is still
\* registered and was written the tick's record.
C7_FailureIsolated ==
    mpc = "sleep" =>
       \A c \in fanoutSnap :
          IF c \in Range(disconnected)
          THEN c \notin Range(clients) /\ ~sock_open[c]
          ELSE c \in Range(clients) /\ sentTick[c] = message

\* One of two registered connections failed and was removed; the other stayed.
C7_Witness ==
    /\ mpc = "sleep"
    /\ Cardinality(fanoutSnap) = 2
    /\ Len(disconnected) = 1
    /\ Len(clients) = 1
    /\ sentTick[clients[1]] = message
    /\ firstRec[clients[1]] # "none"

\* ------------------------------------------------------------------ C8
\* C8 (as claimed): a connection whose welcome send failed is not in the
\* client registry.
C8_FailedWelcomeNotRegistered ==
    \A c \in welcomeFailed : c \notin Range(clients)

\* ------------------------------------------------------------------ C9
\* C9 (as claimed): when shutdown has finished, every connection that was
\* registered when it began is closed, and the listening socket is closed.
C9_ShutdownClosesAll ==
    mainpc = "done" =>
       /\ ~server_open
       /\ \A c \in atShutdown : ~sock_open[c]

\* ------------------------------------------------------------------ C3
\* The receive thread takes a pir_state record with state 1 off the buffer.
DecodesStateOne ==
    /\ rpc = "lines"
    /\ HasNewline(buffer)
    /\ buffer' # buffer
    /\ JsonLoads(FirstLine(buffer)).json = "object"
    /\ JsonLoads(FirstLine(buffer)).type = "pir_state"
    /\ GetState(JsonLoads(FirstLine(buffer))) = 1

\* C3: when the last record decoded was a welcome with pir_state 1, decoding a
\* pir_state record with state 1 does not set the motion flag and does not
\* start recording an edge.
C3_NoEdgeFromSeed ==
    [][ (DecodesStateOne /\ lastRec.type = "welcome" /\ lastRec.state = 1) =>
           (rpc' # "setflag" /\ motion_detected' = motion_detected) ]_vars

\* A welcome with 1 and then a state record with 1 were decoded, and no edge
\* was ever flagged.
C3_Witness ==
    /\ lastRec.type = "pir_state" /\ lastRec.state = 1 /\ lastRec.seeded
    /\ rpc = "lines"
    /\ ~motion_detected /\ unreported = 0 /\ lost = 0
    /\ previous_state = 1

\* ------------------------------------------------------------------ C4
\* Edges decoded whose flag is (about to be) set and not yet consumed.
Pending ==
    (IF motion_detected THEN 1 ELSE 0) + (IF rpc = "setflag" THEN 1 ELSE 0)

\* C4 (as claimed): once no edge is pending, the get_motion calls that
\* returned True are as many as the 0->1 transitions decoded.
C4_EveryEdgeReported == (Pending = 0) => (unreported = 0)

\* C4 (amended): the get_motion calls that returned True never outnumber the
\* 0->1 transitions decoded, and fall short of them by exactly the edges that
\* were decoded while an earlier edge was still unconsumed (the flag holds one
\* edge) plus the one still pending.
C4_EdgeAccounting ==
    /\ unreported >= 0
    /\ unreported = lost + Pending

\* Two edges were decoded before a call consumed the flag: one report, one
\* edge merged into it.
C4_Witness == lastCalls = "T" /\ lost = 1 /\ unreported = 1 /\ Pending = 0

\* ------------------------------------------------------------------ C5
\* C5: when every edge decoded so far has been reported, the last get_motion
\* call returned True and no edge was decoded since, get_motion does not
\* return True.
C5_SecondCallFalse ==
    [][ (lastCalls = "T" /\ unreported = 0) =>
           ~(cpc = "gm_clear" /\ cpc' = "idle") ]_vars

\* After one edge: a call returned True, the next returned False.
C5_Witness == lastCalls = "TF" /\ unreported = 0 /\ lost = 0

\* ------------------------------------------------------------------ C6
\* The receive thread takes a line off the buffer that does not parse as a
\* record object.
DecodesMalformed ==
    /\ rpc = "lines"
    /\ HasNewline(buffer)
    /\ buffer' # buffer
    /\ FirstLine(buffer) # <<>>
    /\ JsonLoads(FirstLine(buffer)).json # "object"

\* C6 (as claimed): a malformed frame leaves the link connected, the decode
\* loop running and the decoder's state as it was.
C6_MalformedSkipped ==
    [][ DecodesMalformed =>
           /\ connected' = connected
           /\ rpc' = "lines"
           /\ previous_state' = previous_state
           /\ motion_detected' = motion_detected
           /\ motion_age' = motion_age ]_vars

\* ----------------------------------------------------------------- C10
\* C10: a zero-length read or a failure other than a timeout ends the receive
\* thread with connected = False, the thread never runs again, and connected
\* is False in every later state.
C10_FailureIsTerminal ==
    [][ /\ (rpc = "recv" /\ rpc' \notin {"recv", "loop", "lines"}) =>
              (rpc' = "failed" /\ ~connected')
        /\ (rpc = "failed") => (rpc' = "failed" /\ ~connected /\ ~connected')
      ]_vars

\* The read failed while the consumer had not closed the link.
C10_Witness ==
    /\ rpc = "failed" /\ ~connected
    /\ self_running /\ socket_open = "open"

\* ----------------------------------------------------------------- C11
\* The state close() leaves: stop signal raised, socket closed, disconnected.
Closed == ~self_running /\ socket_open = "closed" /\ ~connected

\* C11: when a close() call returns, the link is disconnected with its stop
\* signal raised and its socket closed; from such a state no step, and so no
\* further close() call, changes running, the socket or connected.
C11_CloseIdempotent ==
    [][ /\ (cpc = "close_flag" /\ cpc' = "idle") => Closed'
        /\ Closed => /\ self_running' = self_running
                     /\ socket_open' = socket_open
                     /\ connected' = connected
      ]_vars

\* A further close() is at its last statement on a link that an earlier
\* close() disconnected (the receive thread left through its loop test, so
\* only close() can have cleared connected).
C11_Witness == Closed /\ rpc = "stopped" /\ cpc = "close_flag"

\* ----------------------------------------------------------------- C12
\* Time since the most recent rising edge was decoded: between lines 130 and
\* 131 the edge is decoded and last_motion_time is still that of an earlier
\* edge (or the initial 0).
EdgeAge == IF rpc = "settime" THEN 0 ELSE motion_age

\* C12 (as claimed): get_motion passes its debounce test, and returns True,
\* only when the flag is set and strictly more than the debounce window has
\* elapsed since the most recent rising edge was decoded.
C12_DebounceRespected ==
    [][ /\ (cpc = "gm_debounce" /\ cpc' = "gm_clear") =>
              (motion_detected /\ DebounceOver(EdgeAge))
        /\ (cpc = "gm_clear" /\ cpc' = "idle") =>
              (motion_detected /\ DebounceOver(EdgeAge))
      ]_vars

\* ----------------------------------------------------------------- C15
\* The consumer reads the flag and finds it set (line 153 or line 306).
ConsumerSeesFlag ==
    /\ cpc = "idle"
    /\ cpc' \in {"gm_debounce", "w_clear"}
    /\ motion_detected

\* C15 (as claimed): the consumer never finds the flag set while
\* last_motion_time still holds the value of an earlier edge or the initial 0.
C15_FlagAndTimeAtomic ==
    [][ ConsumerSeesFlag => rpc # "settime" ]_vars

\* ----------------------------------------------------------------- C13
\* C13 (as claimed): a connection is registered only after its welcome has
\* been sent, and the first record written to a connection is its welcome.
C13_WelcomeFirst ==
    \A c \in Conns :
       /\ c \in Range(clients) => hpc[c] = "done"
       /\ firstRec[c] \in {"none", "welcome"}

\* ----------------------------------------------------------------- C14
\* C14 (as claimed): while the fan-out loop iterates, no step changes the
\* registry, so the connections it ends with are those it started with.
C14_StableSnapshot ==
    [][ (mpc = "send") => (clients' = clients) ]_vars

\* ----------------------------------------------------------------- C18
\* C18 (as claimed): whenever the fan-out writes the tick's record, its
\* clients_connected field is the number of connections registered.
C18_ClientCountAtSend ==
    (mpc = "send" /\ idx <= Len(clients)) =>
        message.clients_connected = Len(clients)

\* ----------------------------------------------------------------- C16
\* The receive thread takes a well-formed pir_state record off the buffer.
DecodesStateRecord ==
    /\ rpc = "lines"
    /\ HasNewline(buffer)
    /\ buffer' # buffer
    /\ JsonLoads(FirstLine(buffer)).json = "object"
    /\ JsonLoads(FirstLine(buffer)).type = "pir_state"

\* The state carried by the record at the head of the buffer.
HeadState == GetState(JsonLoads(FirstLine(buffer)))

\* The decoder has finished with the last pir_state record it was given.
RecordProcessed ==
    /\ lastRec.type = "pir_state"
    /\ rpc \notin {"setflag", "settime"}

\* C16: once the decode loop has finished with a pir_state record,
\* previous_state is that record's state; the record takes the flag-setting
\* path exactly when previous_state was 0 and its state is 1, and the motion
\* flag goes from clear to set in no other way.
C16_PreviousStateTracks ==
    [][ /\ RecordProcessed' => (previous_state' = lastRec'.state)
        /\ DecodesStateRecord =>
              IF previous_state = 0 /\ HeadState = 1
              THEN rpc' = "setflag"
              ELSE /\ rpc' = "lines"
                   /\ motion_detected' = motion_detected
        /\ (rpc = "setflag") => (rpc' # "setflag" => motion_detected')
        /\ (~motion_detected /\ motion_detected') =>
              /\ rpc = "setflag"
              /\ previous_state = 0
              /\ lastRec.type = "pir_state" /\ lastRec.state = 1
      ]_vars

\* A 0 -> 1 record has been processed: flag set, timestamp fresh,
\* previous_state = 1, after an earlier record with state 0.
C16_Witness ==
    /\ RecordProcessed
    /\ lastRec.state = 1 /\ previous_state = 1
    /\ motion_detected /\ motion_age = 0
    /\ nFrames >= 2 /\ unreported = 1 /\ lost = 0 /\ rpc = "lines"

\* ----------------------------------------------------------------- C17
\* A step takes the motion flag from set to clear.
FlagCleared == motion_detected /\ ~motion_detected'

\* C17 (as claimed): the flag goes from set to clear only in the step of
\* get_motion that returns True.
C17_OnlyGetMotionClears ==
    [][ FlagCleared => (cpc = "gm_clear" /\ cpc' = "idle") ]_vars

\* C17 (amended): the flag goes from set to clear only in the step of
\* get_motion that returns True or in wait_no_motion's `motion_detected =
\* False` (line 309), which clears it without a get_motion report; no step of
\* the receive thread, of close or of a get_motion call that returns False
\* clears it.
C17_ClearedByConsumerOnly ==
    [][ FlagCleared =>
          \/ (cpc = "gm_clear" /\ cpc' = "idle")
          \/ (cpc = "w_clear" /\ cpc' = "idle") ]_vars

\* The only edge decoded was cleared by wait_no_motion: it is neither pending
\* nor reported (one frame was sent, so it was not merged into another edge).
C17_Witness ==
    /\ nFrames = 1 /\ unreported = 1 /\ lost = 1
    /\ ~motion_detected /\ rpc \notin {"setflag", "settime"}
    /\ cpc = "idle"

\* ----------------------------------------------------------------- C19
\* A step of the monitor thread.
MonitorStep ==
    \/ MonitorPoll
    \/ MonitorCheck
    \/ MonitorSend
    \/ MonitorSendEnd
    \/ MonitorRemove
    \/ MonitorSleep
    \/ MonitorWake

\* With an empty registry the server is in service: the flag running is set,
\* the monitor thread has a next step (up to the bound on ticks) and the
\* accept loop takes a new connection (up to the bound on connections).
ServesWhenEmpty ==
    (clients = <<>>) =>
        /\ running /\ server_open /\ mpc # "stopped"
        /\ (ticks < MaxTicks) => ENABLED MonitorStep
        /\ (nAccepted < MaxConns) => ENABLED Accept

\* Every record written in the current tick carries the current motion_count.
RecordsCarryCount ==
    \A c \in Conns :
        sentTick[c] # NoMsg => sentTick[c].motion_count = motion_count

\* C19: an empty registry does not stop the server.  The monitor thread keeps
\* polling and the accept loop keeps accepting; a poll made with an empty
\* registry counts a 0 -> 1 transition like any other poll; and every record
\* written to a connection carries the motion_count of that moment, the edges
\* counted while the registry was empty included.
C19_EmptyRegistryKeepsServing ==
    /\ [](ServesWhenEmpty /\ RecordsCarryCount)
    /\ [][ (ticks' # ticks /\ clients = <<>>) =>
             motion_count' = motion_count +
                (IF mon_previous_state = 0 /\ mon_previous_state' = 1
                 THEN 1 ELSE 0) ]_vars

\* Connection 1 was served and lost; the second edge was counted by a poll that
\* found the registry empty (clients_connected = 0); connection 2, registered
\* afterwards, was written a record whose motion_count includes it.
C19_Witness ==
    /\ firstRec[1] # "none" /\ ~sock_open[1]
    /\ clients = <<2>>
    /\ sentTick[2] # NoMsg
    /\ sentTick[2].motion_count = 2
    /\ sentTick[2].clients_connected = 0

\* ----------------------------------------------------------------- C20
\* The receive thread has returned.
DecodeLoopEnded == rpc \in {"stopped", "failed"}

\* C20: once running is False the accept loop has ended and the listening
\* socket is closed, and the monitor thread ends (it leaves its loop, or ends
\* with the process when main returns); once close() has raised the stop
\* signal of a connected link, the receive thread returns and the link's
\* socket is closed, however the thread left its loop.  No step of the
\* network is needed for any of these.
C20_LoopsStop ==
    /\ [](mainpc # "serving" => ~server_open)
    /\ [](~running => mainpc # "serving")
    /\ (~running) ~> (mpc = "stopped" \/ mainpc = "done")
    /\ (~self_running) ~> (DecodeLoopEnded /\ socket_open = "closed")
    /\ [][DecodeLoopEnded => rpc' = rpc]_vars

\* The receive thread saw the stop signal at its loop test after a read that
\* timed out with nothing in flight, and close() has closed the socket.
C20_Witness ==
    /\ ~self_running /\ rpc = "stopped"
    /\ socket_open = "closed"
    /\ nFrames = 0 /\ wire = <<>>

\* ----------------------------------------------------------------- C21
\* The probes made so far went through the host addresses in increasing
\* order from FirstHost without a gap, and none but the last connected.
ScanInOrder ==
    /\ \A k \in 1..Len(probed) : probed[k].host = FirstHost + k - 1
    /\ \A k \in 1..(Len(probed) - 1) : ~probed[k].ok

\* Every host address of the range was probed and none connected.
FullScanFailed ==
    /\ Len(probed) = LastHost - FirstHost + 1
    /\ \A k \in 1..Len(probed) : ~probed[k].ok

\* C21 (as claimed): None is returned only after every host address of the
\* range has been probed and none connected.
C21_NotFoundOnlyAfterFullScan ==
    dpc = "notfound" => FullScanFailed

\* C21 (amended): the probes go through the host addresses .1 to .254 in
\* increasing order; an address is returned only when its probe connected
\* and it is the last one probed, so it is the lowest that connected and
\* nothing is probed after it; None is returned after every host address was
\* probed and none connected, or before any probe when the local network
\* could not be determined.
C21_FirstConnectedOrNone ==
    /\ ScanInOrder
    /\ dpc = "scan" => (found = 0 /\ \A k \in 1..Len(probed) : ~probed[k].ok)
    /\ dpc = "found" =>
          /\ probed # <<>>
          /\ probed[Len(probed)].ok
          /\ found = probed[Len(probed)].host
    /\ dpc = "notfound" =>
          /\ found = 0
          /\ (probed = <<>> \/ FullScanFailed)

\* The whole range was probed, nothing connected, None was returned.
C21_Witness == dpc = "notfound" /\ FullScanFailed /\ host_i = LastHost + 1

\* ---------------------------------------------------------------- C22
\* The byte stream cut at its newlines, and what follows the n-th newline.
NLCount(bytes) == Cardinality({ i \in 1..Len(bytes) : bytes[i] = NL })

RECURSIVE AfterLines(_, _)
AfterLines(bytes, n) ==
    IF n = 0 THEN bytes
    ELSE AfterLines(SubSeq(bytes, NLPos(bytes) + 1, Len(bytes)), n - 1)

StreamLine(bytes, n) ==
    LET from == AfterLines(bytes, n - 1) IN SubSeq(from, 1, NLPos(from) - 1)

\* Lines 118-142 run on one record that came whole in one read: st is the
\* local previous_state, the number of times line 130 has run, and whether
\* the loop is still running.
WholeRecordStep(st, line) ==
    LET text == Utf8Decode(line).text
        msg  == JsonLoads(text)
    IN  IF ~st.alive \/ text = <<>> \/ msg.json = "error"
        THEN st
        ELSE IF msg.json # "object"
        THEN [st EXCEPT !.alive = FALSE]
        ELSE IF msg.type = "pir_state"
        THEN [prev  |-> GetState(msg),
              sets  |-> IF GetState(msg) = 1 /\ st.prev = 0
                        THEN st.sets + 1 ELSE st.sets,
              alive |-> TRUE]
        ELSE [st EXCEPT !.prev = GetState(msg)]

RECURSIVE WholeRecordRun(_, _)
WholeRecordRun(bytes, n) ==
    IF n = 0
    THEN [prev |-> 0, sets |-> 0, alive |-> TRUE]
    ELSE WholeRecordStep(WholeRecordRun(bytes, n - 1), StreamLine(bytes, n))

\* The records the decode loop has taken off its buffer so far, and the number
\* of times it has set the flag (nothing clears the flag here).
LinesTaken == NLCount(stream) - NLCount(wire) - NLCount(buffer)
FlagSets == lost + (IF motion_detected THEN 1 ELSE 0)
BetweenRecords == rpc \in {"loop", "recv", "lines", "failed"}

ChunkingInvisible ==
    BetweenRecords =>
        LET ref == WholeRecordRun(stream, LinesTaken)
        IN  /\ previous_state = ref.prev
            /\ FlagSets = ref.sets
            /\ (rpc = "failed") = ~ref.alive
            /\ rpc # "failed" =>
                  /\ Utf8Decode(wire).ok
                  /\ buffer \o Utf8Decode(wire).text
                       = Utf8Decode(AfterLines(stream, LinesTaken)).text
                  /\ rpc \in {"loop", "recv"} => ~HasNewline(buffer)

\* C22 (as claimed): whatever the division of the byte stream into reads, the
\* decode loop, each time it stands between two records, has made exactly the
\* updates of previous_state and the flag sets that the same records make
\* when each comes whole in one read, it has stopped only where they stop it,
\* and its buffer holds exactly the text not yet taken, the part after the
\* last newline staying there until its newline comes.
C22_ChunkingInvisible == ChunkingInvisible

AsciiOnly == \A i \in 1..Len(stream) : stream[i] \notin {Lead, Cont}

\* C22 (ASCII streams only): the same, for the streams in which every byte is
\* ASCII, where no read can end inside a character.
C22_AsciiChunkingInvisible == AsciiOnly => ChunkingInvisible

\* The decode loop has stopped on a read that ended inside a character, with
\* records taken before it and records left behind.
C22_Witness ==
    /\ rpc = "failed"
    /\ WholeRecordRun(stream, LinesTaken).alive
    /\ LinesTaken >= 1

====
